---- MODULE Spec2Model ----
(***************************************************************************)
(* Simplification, splitting and differentiation of the n-ary Addition and *)
(* Multiplication nodes of the symbolic expression tree                    *)
(* (src/structure/operations/Addition.ts, Multiplication.ts).              *)
(*                                                                         *)
(* An expression is a record [k, value, name, args]:                       *)
(*   k = "Value"           a numeric constant, field value                 *)
(*   k = "Variable"        a named variable, field name                    *)
(*   k = "Addition"        an n-ary sum, field args                        *)
(*   k = "Multiplication"  an n-ary product, field args                    *)
(*   k = "ArityError"      the outcome of an operation whose evaluation    *)
(*                         threw at an operator constructor                *)
(* Numbers are modelled as integers (the values used stay far below 2^53,  *)
(* where the IEEE doubles of the source are exact).                        *)
(***************************************************************************)
EXTENDS Integers, Sequences, FiniteSets, TLC

VARIABLES e, knowns, keyOrder, op, dvar, result, result2, splitOut

vars == <<e, knowns, keyOrder, op, dvar, result, result2, splitOut>>

(***************************************************************************)
(* Bounds of the explored inputs.                                          *)
(***************************************************************************)
MaxValue == 2
MaxArgs == 3

Names == {"x", "y"}
Values == {0 - 1} \cup (0 .. MaxValue)

(***************************************************************************)
(* Leaves and the operator base contract.                                  *)
(***************************************************************************)
Value(n) == [k |-> "Value", value |-> n, name |-> "", args |-> <<>>]

Variable(s) == [k |-> "Variable", value |-> 0, name |-> s, args |-> <<>>]

ArityError == [k |-> "ArityError", value |-> 0, name |-> "", args |-> <<>>]

ZERO == Value(0)

ONE == Value(1)

Addition_MAX_ALLOWED_ARGS == 200

Multiplication_MAX_ALLOWED_ARGS == 200

IsErr(x) == x.k = "ArityError"

AnyErr(s) == \E i \in 1 .. Len(s) : IsErr(s[i])

\* Function's constructor: the arity validation shared by both operators.
Function(symbol, args, minArgs, maxArgs) ==
  IF Len(args) < minArgs \/ Len(args) > maxArgs
    THEN ArityError
    ELSE [k |-> symbol, value |-> 0, name |-> "", args |-> args]

NewAddition(args) == Function("Addition", args, 2, Addition_MAX_ALLOWED_ARGS)

NewMultiplication(args) == Function("Multiplication", args, 2, Multiplication_MAX_ALLOWED_ARGS)

multiply(args) == NewMultiplication(args)

plus(args) == NewAddition(args)

\* knowns is a set of <<name, value>> bindings, at most one per name.
IsKnown(s, kn) == \E b \in kn : b[1] = s

KnownValue(s, kn) == (CHOOSE b \in kn : b[1] = s)[2]

RECURSIVE hasUnknowns(_, _)
hasUnknowns(x, kn) ==
  CASE x.k = "Variable" -> ~IsKnown(x.name, kn)
    [] x.k \in {"Addition", "Multiplication"} ->
         \E i \in 1 .. Len(x.args) : hasUnknowns(x.args[i], kn)
    [] OTHER -> FALSE

(***************************************************************************)
(* The grouping map: keys() of the distinct keys put into it.  The order   *)
(* in which the map enumerates its keys is not fixed by the program; the   *)
(* model draws it (insertion order or its reverse) with the input.         *)
(***************************************************************************)
RECURSIVE Distinct(_)
Distinct(s) ==
  IF s = <<>> THEN <<>>
  ELSE LET d == Distinct(SubSeq(s, 1, Len(s) - 1))
           last == s[Len(s)]
       IN IF \E i \in 1 .. Len(d) : d[i] = last THEN d ELSE Append(d, last)

Reverse(s) == [i \in 1 .. Len(s) |-> s[Len(s) + 1 - i]]

HashMapKeys(s) ==
  IF keyOrder = "insertion" THEN Distinct(s) ELSE Reverse(Distinct(s))

\* seed + f[1] + ... + f[n] and seed * f[1] * ... * f[n], from the left.
RECURSIVE SumOver(_, _, _)
SumOver(f, n, seed) == IF n = 0 THEN seed ELSE SumOver(f, n - 1, seed) + f[n]

RECURSIVE ProductOver(_, _, _)
ProductOver(f, n, seed) == IF n = 0 THEN seed ELSE ProductOver(f, n - 1, seed) * f[n]

RECURSIVE Concat(_)
Concat(ss) == IF ss = <<>> THEN <<>> ELSE Head(ss) \o Concat(Tail(ss))

(***************************************************************************)
(* Leaf behaviour: Value and Variable.                                     *)
(***************************************************************************)
LeafSimplify(x, kn) ==
  IF x.k = "Variable" /\ IsKnown(x.name, kn) THEN Value(KnownValue(x.name, kn)) ELSE x

LeafDerivative(x, variable) ==
  IF x.k = "Variable" /\ x.name = variable THEN ONE ELSE ZERO

RECURSIVE simplify(_, _)
RECURSIVE AdditionSplitArgs(_, _)
RECURSIVE MultiplicationSplitArgs(_, _)
RECURSIVE AdditionSimplify(_, _)
RECURSIVE MultiplicationSimplify(_, _)
RECURSIVE groupLikeTerms(_, _)

(***************************************************************************)
(* Multiplication.split: the loop over the arguments, from the left.       *)
(***************************************************************************)
MultiplicationSplitArgs(args, kn) ==
  IF args = <<>> THEN [expressions |-> <<>>, value |-> 1]
  ELSE LET arg == Head(args)
           rest == MultiplicationSplitArgs(Tail(args), kn)
       IN CASE arg.k = "Value" ->
                 [expressions |-> rest.expressions, value |-> arg.value * rest.value]
            [] arg.k = "Multiplication" ->
                 LET nextArgs == MultiplicationSplitArgs(arg.args, kn)
                 IN [expressions |-> nextArgs.expressions \o rest.expressions,
                     value |-> nextArgs.value * rest.value]
            [] OTHER ->
                 [expressions |-> <<simplify(arg, kn)>> \o rest.expressions,
                  value |-> rest.value]

MultiplicationSplit(this, kn) == MultiplicationSplitArgs(this.args, kn)

(***************************************************************************)
(* Multiplication.simplify.                                                *)
(***************************************************************************)
\* The full evaluation of lines 118-124: the accumulator starts at 0.
MultiplicationFold(simplArgs, kn) ==
  LET vals == [i \in 1 .. Len(simplArgs) |-> simplify(simplArgs[i], kn).value]
  IN Value(ProductOver(vals, Len(simplArgs), 0))

\* MultiplicationResidue without the short circuit on a zero product.
MultiplicationResidueKeepZero(splitArgs) ==
  LET exprs == splitArgs.expressions
  IN IF Len(exprs) = 0 THEN Value(splitArgs.value)
     ELSE IF Len(exprs) = 1
       THEN IF splitArgs.value = 1 THEN exprs[1]
            ELSE NewMultiplication(Append(exprs, Value(splitArgs.value)))
     ELSE IF splitArgs.value = 1 THEN NewMultiplication(exprs)
          ELSE NewMultiplication(Append(exprs, Value(splitArgs.value)))

\* Lines 130-150: the result built from the split of the simplified product.
MultiplicationResidue(splitArgs) ==
  LET exprs == splitArgs.expressions
  IN IF splitArgs.value = 0 THEN ZERO
     ELSE IF Len(exprs) = 0 THEN Value(splitArgs.value)
     ELSE IF Len(exprs) = 1
       THEN IF splitArgs.value = 1 THEN exprs[1]
            ELSE NewMultiplication(Append(exprs, Value(splitArgs.value)))
     ELSE IF splitArgs.value = 1 THEN NewMultiplication(exprs)
          ELSE NewMultiplication(Append(exprs, Value(splitArgs.value)))

MultiplicationSimplify(this, kn) ==
  LET simplArgs == [i \in 1 .. Len(this.args) |->
                      IF this.args[i].k = "Multiplication" THEN this.args[i]
                      ELSE simplify(this.args[i], kn)]
      simplMult == NewMultiplication(simplArgs)
  IN IF AnyErr(simplArgs) THEN ArityError
     ELSE IF ~hasUnknowns(simplMult, kn) THEN MultiplicationFold(simplArgs, kn)
     ELSE LET splitArgs == MultiplicationSplit(simplMult, kn)
          IN IF AnyErr(splitArgs.expressions) THEN ArityError
             ELSE MultiplicationResidue(splitArgs)

(***************************************************************************)
(* Addition.split: the loop over the arguments, from the left.             *)
(***************************************************************************)
\* AdditionSplitArgs that drops the numeric total of a nested Addition.
RECURSIVE AdditionSplitArgsNoMerge(_, _)
AdditionSplitArgsNoMerge(args, kn) ==
  IF args = <<>> THEN [expressions |-> <<>>, value |-> 0]
  ELSE LET arg == Head(args)
           rest == AdditionSplitArgsNoMerge(Tail(args), kn)
       IN CASE arg.k = "Value" ->
                 [expressions |-> rest.expressions, value |-> arg.value + rest.value]
            [] arg.k = "Addition" ->
                 LET nextArgs == AdditionSplitArgsNoMerge(arg.args, kn)
                 IN [expressions |-> nextArgs.expressions \o rest.expressions,
                     value |-> rest.value]
            [] OTHER ->
                 [expressions |-> <<simplify(arg, kn)>> \o rest.expressions,
                  value |-> rest.value]

AdditionSplitArgs(args, kn) ==
  IF args = <<>> THEN [expressions |-> <<>>, value |-> 0]
  ELSE LET arg == Head(args)
           rest == AdditionSplitArgs(Tail(args), kn)
       IN CASE arg.k = "Value" ->
                 [expressions |-> rest.expressions, value |-> arg.value + rest.value]
            [] arg.k = "Addition" ->
                 LET nextArgs == AdditionSplitArgs(arg.args, kn)
                 IN [expressions |-> nextArgs.expressions \o rest.expressions,
                     value |-> nextArgs.value + rest.value]
            [] OTHER ->
                 [expressions |-> <<simplify(arg, kn)>> \o rest.expressions,
                  value |-> rest.value]

AdditionSplit(this, kn) == AdditionSplitArgs(this.args, kn)

(***************************************************************************)
(* Addition.groupLikeTerms: like-term grouping over products.              *)
(***************************************************************************)
groupLikeTerms(this, kn) ==
  IF IsErr(this) THEN ArityError
  ELSE
  LET n == Len(this.args)
      isMult(i) == this.args[i].k = "Multiplication"
      splits == [i \in 1 .. n |->
                   IF isMult(i) THEN MultiplicationSplit(this.args[i], kn)
                   ELSE [expressions |-> <<>>, value |-> 0]]
      multIdx == {i \in 1 .. n : isMult(i)}
      RECURSIVE entriesOf(_)
      entriesOf(i) == IF i > n THEN <<>>
                      ELSE IF isMult(i) THEN <<splits[i].expressions>> \o entriesOf(i + 1)
                      ELSE entriesOf(i + 1)
      RECURSIVE othersOf(_)
      othersOf(i) == IF i > n THEN <<>>
                     ELSE IF isMult(i) THEN othersOf(i + 1)
                     ELSE <<this.args[i]>> \o othersOf(i + 1)
      keys == HashMapKeys(entriesOf(1))
      coeff(entry) ==
        LET f == [i \in 1 .. n |->
                    IF isMult(i) /\ splits[i].expressions = entry THEN splits[i].value ELSE 0]
        IN SumOver(f, n, 0)
      emit(entry) ==
        LET v == coeff(entry)
        IN IF v = 0 THEN <<>>
           ELSE IF v = 1 THEN <<NewMultiplication(entry)>>
           ELSE <<NewMultiplication(<<Value(v)>> \o entry)>>
      exprsOut == Concat([i \in 1 .. Len(keys) |-> emit(keys[i])]) \o othersOf(1)
  IN IF \E i \in multIdx : AnyErr(splits[i].expressions) THEN ArityError
     ELSE IF AnyErr(exprsOut) THEN ArityError
     ELSE NewAddition(exprsOut)

(***************************************************************************)
(* Addition.simplify.                                                      *)
(***************************************************************************)
Count(x, s) == Cardinality({i \in 1 .. Len(s) : s[i] = x})

\* The arguments handed to the Addition that groupLikeTerms is called on
\* (lines 119-155): the grouped terms, then the numeric total when nonzero.
AdditionGroupedArgs(splitArgs, kn) ==
  LET exprs == splitArgs.expressions
      keys == HashMapKeys(exprs)
      groupedArgs == [i \in 1 .. Len(keys) |->
                        IF Count(keys[i], exprs) = 1 THEN simplify(keys[i], kn)
                        ELSE simplify(NewMultiplication(
                               <<Value(Count(keys[i], exprs)), keys[i]>>), kn)]
  IN IF Len(groupedArgs) # 0 /\ splitArgs.value # 0
       THEN Append(groupedArgs, Value(splitArgs.value))
       ELSE groupedArgs

\* AdditionFold with the accumulator started at 1.
AdditionFoldFromOne(simplArgs, kn) ==
  LET vals == [i \in 1 .. Len(simplArgs) |-> simplify(simplArgs[i], kn).value]
  IN Value(SumOver(vals, Len(simplArgs), 1))

\* The full evaluation of lines 108-114.
AdditionFold(simplArgs, kn) ==
  LET vals == [i \in 1 .. Len(simplArgs) |-> simplify(simplArgs[i], kn).value]
  IN Value(SumOver(vals, Len(simplArgs), 0))

\* Lines 91-101: every argument simplified, except nested Additions.
AdditionSimplArgs(this, kn) ==
  [i \in 1 .. Len(this.args) |->
     IF this.args[i].k = "Addition" THEN this.args[i]
     ELSE simplify(this.args[i], kn)]

AdditionSimplify(this, kn) ==
  LET simplArgs == AdditionSimplArgs(this, kn)
      simplAddition == NewAddition(simplArgs)
  IN IF AnyErr(simplArgs) THEN ArityError
     ELSE IF ~hasUnknowns(simplAddition, kn) THEN AdditionFold(simplArgs, kn)
     ELSE LET splitArgs == AdditionSplit(simplAddition, kn)
          IN IF AnyErr(splitArgs.expressions) THEN ArityError
             ELSE LET groupedArgs == AdditionGroupedArgs(splitArgs, kn)
                  IN IF AnyErr(groupedArgs) THEN ArityError
                     ELSE IF Len(groupedArgs) = 0 THEN Value(splitArgs.value)
                     ELSE groupLikeTerms(NewAddition(groupedArgs), kn)

simplify(x, kn) ==
  CASE x.k = "Addition" -> AdditionSimplify(x, kn)
    [] x.k = "Multiplication" -> MultiplicationSimplify(x, kn)
    [] OTHER -> LeafSimplify(x, kn)

(***************************************************************************)
(* derivative.                                                             *)
(***************************************************************************)
RECURSIVE derivative(_, _)

AdditionDerivative(this, variable) ==
  plus([i \in 1 .. Len(this.args) |-> derivative(this.args[i], variable)])

MultiplicationDerivative(this, variable) ==
  LET n == Len(this.args)
      operands(i) == [j \in 1 .. n |->
                        IF j = i THEN derivative(this.args[i], variable)
                        ELSE this.args[i]]
  IN plus([i \in 1 .. n |-> multiply(operands(i))])

derivative(x, variable) ==
  CASE x.k = "Addition" -> AdditionDerivative(x, variable)
    [] x.k = "Multiplication" -> MultiplicationDerivative(x, variable)
    [] OTHER -> LeafDerivative(x, variable)

(***************************************************************************)
(* The inputs: expression trees a client can build with the constructors,  *)
(* a set of known bindings, and the enumeration order of the grouping map. *)
(***************************************************************************)
Leaves == {Value(n) : n \in Values} \cup {Variable(s) : s \in Names}

ArgLists(S, n) == UNION {[1 .. m -> S] : m \in 2 .. n}

Nodes(S, n) == {NewAddition(a) : a \in ArgLists(S, n)}
                 \cup {NewMultiplication(a) : a \in ArgLists(S, n)}

Level1 == Nodes(Leaves, MaxArgs)

Level2 == Nodes(Leaves \cup Nodes(Leaves, 2), 2)

\* Some trees of depth three, over few leaves.
FewLeaves == {ZERO, Variable("x"), Variable("y")}

Pairs(S, T) == {NewAddition(<<a, b>>) : a \in S, b \in T}
                 \cup {NewMultiplication(<<a, b>>) : a \in S, b \in T}

Level3 == Pairs(Nodes(FewLeaves \cup Nodes(FewLeaves, 2), 2), FewLeaves)

Inputs == Leaves \cup Level1 \cup Level2 \cup Level3

KnownSets == SUBSET {<<"x", 0 - 1>>, <<"y", MaxValue>>}

NoSplit == [expressions |-> <<>>, value |-> 0]

NoResult == [k |-> "none", value |-> 0, name |-> "", args |-> <<>>]

Init ==
  /\ e \in Inputs
  /\ knowns \in KnownSets
  /\ keyOrder \in {"insertion", "reverse"}
  /\ op = "init"
  /\ dvar = ""
  /\ result = NoResult
  /\ result2 = NoResult
  /\ splitOut = NoSplit

\* e.simplify(knowns)
DoSimplify ==
  /\ op = "init"
  /\ result' = simplify(e, knowns)
  /\ op' = "simplify"
  /\ UNCHANGED <<e, knowns, keyOrder, dvar, result2, splitOut>>

\* e.simplify(knowns).simplify(knowns), when the first call returned
DoSimplifyAgain ==
  /\ op = "simplify"
  /\ ~IsErr(result)
  /\ result2' = simplify(result, knowns)
  /\ op' = "resimplify"
  /\ UNCHANGED <<e, knowns, keyOrder, dvar, result, splitOut>>

\* e.split(knowns), for an operator node e
DoSplit ==
  /\ op = "init"
  /\ e.k \in {"Addition", "Multiplication"}
  /\ LET out == IF e.k = "Addition" THEN AdditionSplit(e, knowns)
                ELSE MultiplicationSplit(e, knowns)
     IN splitOut' = IF AnyErr(out.expressions)
                      THEN [expressions |-> <<ArityError>>, value |-> 0]
                      ELSE out
  /\ op' = "split"
  /\ UNCHANGED <<e, knowns, keyOrder, dvar, result, result2>>

\* e.derivative(variable)
DoDerivative ==
  /\ op = "init"
  /\ \E variable \in Names :
       /\ dvar' = variable
       /\ result' = derivative(e, variable)
  /\ op' = "derivative"
  /\ UNCHANGED <<e, knowns, keyOrder, result2, splitOut>>

Next == DoSimplify \/ DoSimplifyAgain \/ DoSplit \/ DoDerivative

Spec == Init /\ [][Next]_vars

(***************************************************************************)
(* Vocabulary of the properties.                                           *)
(***************************************************************************)
IsLeaf(x) == x.k \in {"Value", "Variable"}

AllValues(args) == \A i \in 1 .. Len(args) : args[i].k = "Value"

ValuesOf(args) == [i \in 1 .. Len(args) |-> args[i].value]

\* The number an expression denotes when every variable has a value.
RECURSIVE Denote(_, _)
Denote(x, env) ==
  CASE x.k = "Value" -> x.value
    [] x.k = "Variable" -> env[x.name]
    [] x.k = "Addition" ->
         SumOver([i \in 1 .. Len(x.args) |-> Denote(x.args[i], env)], Len(x.args), 0)
    [] x.k = "Multiplication" ->
         ProductOver([i \in 1 .. Len(x.args) |-> Denote(x.args[i], env)], Len(x.args), 1)
    [] OTHER -> 0

\* Environments that agree with the known bindings.
EnvsFor(kn) == {[s \in Names |-> IF IsKnown(s, kn) THEN KnownValue(s, kn) ELSE env[s]] :
                  env \in [Names -> {2, 3, 5}]}

SemEq(a, b, kn) ==
  /\ ~IsErr(a)
  /\ ~IsErr(b)
  /\ \A env \in EnvsFor(kn) : Denote(a, env) = Denote(b, env)

(***************************************************************************)
(* C1  A Multiplication of Constants simplifies, with no knowns, to the    *)
(*     Constant holding the arithmetic product of the children.            *)
(***************************************************************************)
C1_ProductOfConstants ==
  (op = "simplify" /\ e.k = "Multiplication" /\ AllValues(e.args) /\ knowns = {})
    => result = Value(ProductOver(ValuesOf(e.args), Len(e.args), 1))

(***************************************************************************)
(* C2  derivative of a Multiplication of f_1..f_n is an Addition of n      *)
(*     Multiplications; factor j of term i is the derivative of f_i when   *)
(*     j = i and the original factor f_j otherwise.                        *)
(***************************************************************************)
C2_ProductRule ==
  (op = "derivative" /\ e.k = "Multiplication")
    => /\ result.k = "Addition"
       /\ Len(result.args) = Len(e.args)
       /\ \A i \in 1 .. Len(e.args) :
            /\ result.args[i].k = "Multiplication"
            /\ Len(result.args[i].args) = Len(e.args)
            /\ \A j \in 1 .. Len(e.args) :
                 result.args[i].args[j] =
                   IF j = i THEN derivative(e.args[i], dvar) ELSE e.args[j]

(***************************************************************************)
(* C3  simplify of a validly constructed tree never fails with an          *)
(*     ArityError: every node it constructs has 2..200 children.           *)
(***************************************************************************)
C3_NoArityError ==
  /\ op = "simplify" => ~IsErr(result)
  /\ op = "resimplify" => ~IsErr(result2)

(***************************************************************************)
(* C4  An Addition of c >= 2 copies of one unknown Variable x simplifies,  *)
(*     with no knowns, to an expression semantically equal to c * x.       *)
(***************************************************************************)
CopiesOfOneVariable(x) ==
  /\ x.k = "Addition"
  /\ x.args[1].k = "Variable"
  /\ \A i \in 1 .. Len(x.args) : x.args[i] = x.args[1]

C4_LikeTermCollapse ==
  (op = "simplify" /\ CopiesOfOneVariable(e) /\ knowns = {})
    => SemEq(result, NewMultiplication(<<Value(Len(e.args)), e.args[1]>>), knowns)

(***************************************************************************)
(* C5  A Multiplication with a Constant 0 among its factors, directly or   *)
(*     inside nested Multiplication children, the other factors being      *)
(*     Constants and known or unknown Variables, simplifies to Constant 0. *)
(***************************************************************************)
RECURSIVE ProductOfLeaves(_)
ProductOfLeaves(x) ==
  /\ x.k = "Multiplication"
  /\ \A i \in 1 .. Len(x.args) : IsLeaf(x.args[i]) \/ ProductOfLeaves(x.args[i])

RECURSIVE HasZeroFactor(_)
HasZeroFactor(x) ==
  /\ x.k = "Multiplication"
  /\ \E i \in 1 .. Len(x.args) : x.args[i] = ZERO \/ HasZeroFactor(x.args[i])

C6_Idempotent ==
  /\ op = "simplify" => ~IsErr(result)
  /\ op = "resimplify" => (~IsErr(result2) /\ result2 = result)

(***************************************************************************)
(* C7  An Addition whose children are each a Constant or a Variable bound  *)
(*     in knowns simplifies to the Constant holding the sum of the         *)
(*     Constants' values and the Variables' bound values.                  *)
(***************************************************************************)
KnownLeaf(x, kn) == x.k = "Value" \/ (x.k = "Variable" /\ IsKnown(x.name, kn))

LeafNumber(x, kn) == IF x.k = "Value" THEN x.value ELSE KnownValue(x.name, kn)

C7_KnownSum ==
  (op = "simplify" /\ e.k = "Addition"
     /\ \A i \in 1 .. Len(e.args) : KnownLeaf(e.args[i], knowns))
    => result = Value(SumOver([i \in 1 .. Len(e.args) |-> LeafNumber(e.args[i], knowns)],
                              Len(e.args), 0))

C7_Witness ==
  /\ op = "simplify"
  /\ e.k = "Addition"
  /\ \A i \in 1 .. Len(e.args) : KnownLeaf(e.args[i], knowns)
  /\ \E i \in 1 .. Len(e.args) : e.args[i].k = "Variable"
  /\ \E i \in 1 .. Len(e.args) : e.args[i].k = "Value" /\ e.args[i].value # 0
  /\ result.k = "Value"
  /\ result.value # 0

(***************************************************************************)
(* C8  Additive identity elision: the result of simplifying an Addition    *)
(*     that contains an unknown variable has no Constant 0 among its       *)
(*     addends; Addition([x, Constant(0)]) with x unknown simplifies to    *)
(*     an expression semantically equal to x.                              *)
(***************************************************************************)
C8_NoZeroAddend ==
  (op = "simplify" /\ e.k = "Addition" /\ hasUnknowns(e, knowns))
    => /\ ~IsErr(result)
       /\ result.k = "Addition" => \A i \in 1 .. Len(result.args) : result.args[i] # ZERO
       /\ (Len(e.args) = 2 /\ e.args[1].k = "Variable" /\ e.args[2] = ZERO)
            => SemEq(result, e.args[1], knowns)

(***************************************************************************)
(* C9  Addition.split.  As claimed: the numeric total is the sum of the    *)
(*     Constants among the children of this Addition and of its nested     *)
(*     Additions, and the residue is flat: it holds no Addition and no     *)
(*     Constant, only the simplified other children, left to right.        *)
(***************************************************************************)
RECURSIVE FlatAddends(_)
FlatAddends(args) ==
  IF args = <<>> THEN <<>>
  ELSE (IF Head(args).k = "Addition" THEN FlatAddends(Head(args).args) ELSE <<Head(args)>>)
         \o FlatAddends(Tail(args))

IsValue(x) == x.k = "Value"

NotValue(x) == x.k # "Value"

SumOfConstants(x) ==
  LET cs == SelectSeq(FlatAddends(x.args), IsValue)
  IN SumOver([i \in 1 .. Len(cs) |-> cs[i].value], Len(cs), 0)

SimplifiedAddends(x, kn) ==
  LET sym == SelectSeq(FlatAddends(x.args), NotValue)
  IN [i \in 1 .. Len(sym) |-> simplify(sym[i], kn)]

SplitReturned == op = "split" /\ ~AnyErr(splitOut.expressions)

ReachesGrouping(x, kn) ==
  LET simplArgs == AdditionSimplArgs(x, kn)
  IN /\ x.k = "Addition"
     /\ ~AnyErr(simplArgs)
     /\ hasUnknowns(NewAddition(simplArgs), kn)
     /\ LET splitArgs == AdditionSplit(NewAddition(simplArgs), kn)
        IN /\ ~AnyErr(splitArgs.expressions)
           /\ ~AnyErr(AdditionGroupedArgs(splitArgs, kn))
           /\ Len(AdditionGroupedArgs(splitArgs, kn)) # 0

GroupingInput(x, kn) ==
  AdditionGroupedArgs(AdditionSplit(NewAddition(AdditionSimplArgs(x, kn)), kn), kn)

Factors(m, kn) == MultiplicationSplit(m, kn).expressions

Coefficient(m, kn) == MultiplicationSplit(m, kn).value

Products(s) == {i \in 1 .. Len(s) : s[i].k = "Multiplication"}

C10_LikeTermsMerged ==
  (op = "simplify" /\ ReachesGrouping(e, knowns))
    => LET pre == GroupingInput(e, knowns)
           total(i) == SumOver([j \in 1 .. Len(pre) |->
                                  IF j \in Products(pre)
                                       /\ Factors(pre[j], knowns) = Factors(pre[i], knowns)
                                    THEN Coefficient(pre[j], knowns) ELSE 0],
                               Len(pre), 0)
           addends == IF IsErr(result) THEN <<>> ELSE result.args
           has(m) == \E r \in 1 .. Len(addends) : addends[r] = m
       IN /\ result.k = "Addition"
          /\ \A i \in Products(pre) :
               LET fs == Factors(pre[i], knowns)
               IN CASE total(i) = 0 ->
                         ~\E r \in Products(addends) : Factors(addends[r], knowns) = fs
                    [] total(i) = 1 ->
                         has([k |-> "Multiplication", value |-> 0, name |-> "", args |-> fs])
                    [] OTHER ->
                         has([k |-> "Multiplication", value |-> 0, name |-> "",
                              args |-> <<Value(total(i))>> \o fs])
          /\ \A r1, r2 \in Products(addends) :
               Factors(addends[r1], knowns) = Factors(addends[r2], knowns) => r1 = r2

====
